---- MODULE Spec2Model ----
(***************************************************************************)
(* Model of the PEMDash control engine: the MPC strategies of class        *)
(* MPCAlgorithms (src/unnamed/part_001) and the learned predictor of class *)
(* NeuralMPC (src/neural-mpc.js).                                          *)
(*                                                                         *)
(* Numbers.  JavaScript numbers that carry a physical quantity are kept in *)
(* fixed point, in units of 1/SCALE; the inputs are chosen so that every   *)
(* operation the code performs on them is exact in that unit.  Counts      *)
(* (horizon, scenarios, hour of day) and the cost weights are plain        *)
(* integers.  A JavaScript value is a record [t, v]: t is its kind         *)
(* ("number", "undefined", "NaN", "promise") and v its payload.            *)
(***************************************************************************)
EXTENDS Integers, Sequences, FiniteSets, TLC

VARIABLES
    request,            \* the call in flight or last made, with its arguments
    result,             \* what the last completed call handed back
    pc,                 \* "idle", "stochastic" (StochasticMPC in its loop), "done"
    scenarioControls,   \* StochasticMPC's scenarioControls array
    scenarioCosts,      \* StochasticMPC's scenarioCosts array
    scenarioRaised,     \* whether a nested call of the loop raised and caught
    isInitialized,      \* NeuralMPC.isInitialized
    modelWellFormed,    \* whether NeuralMPC.model holds every weight and bias
    performanceHistory, \* NeuralMPC.performanceHistory
    storage,            \* localStorage's record under 'neural_mpc_model'
    modelTrained,       \* NeuralMPC.model.trained
    modelFresh,         \* whether model.weights are as initializeModel drew them
    trainingData,       \* NeuralMPC.trainingData
    training,           \* the train() runs suspended at an await, oldest first
    comparisonData,     \* MPCComparator.comparisonData
    performanceMetrics, \* MPCComparator.performanceMetrics
    comparisonHistory,  \* MPCComparator.comparisonHistory
    report,             \* what getBestPerformingStrategy handed back last
    simulinkBridge,     \* the fields of the SimulinkBridge object
    mqttClient,         \* the fields of the MQTTClient object and its sockets
    timers,             \* the browser's pending timeouts and live intervals
    wire                \* the commands given to the bridge and those emitted

vars == <<request, result, pc, scenarioControls, scenarioCosts, scenarioRaised,
          isInitialized, modelWellFormed, performanceHistory, storage,
          modelTrained, modelFresh, trainingData, training, comparisonData,
          performanceMetrics, comparisonHistory, report, simulinkBridge,
          mqttClient, timers, wire>>

\* Fixed-point unit: 1 / SCALE.
SCALE == 100 * 100

(***************************************************************************)
(* JavaScript values                                                       *)
(***************************************************************************)
Undef == [t |-> "undefined", v |-> 0]

NaN == [t |-> "NaN", v |-> 0]

Num(n) == [t |-> "number", v |-> n]

\* A promise that resolves to the number n.
PromiseOf(n) == [t |-> "promise", v |-> n]

IsNum(x) == x.t = "number"

\* x > n, x < n as JavaScript evaluates them: false unless x is a number.
Gt(x, n) == IsNum(x) /\ x.v > n

Lt(x, n) == IsNum(x) /\ x.v < n

\* ToBoolean of a number or undefined: 0, NaN and undefined are falsy.
Truthy(x) == IsNum(x) /\ x.v # 0

\* x || d
OrElse(x, d) == IF Truthy(x) THEN x.v ELSE d

\* A destructuring default ({ f = d } = parameters): d replaces undefined only.
Default(x, d) == IF x.t = "undefined" THEN d ELSE x

Min(a, b) == IF a <= b THEN a ELSE b

Max(a, b) == IF a >= b THEN a ELSE b

(***************************************************************************)
(* Model parameters of MPCAlgorithms (constructor)                         *)
(***************************************************************************)
MIN_CURRENT == 100

MAX_CURRENT == 200

GridSteps == 20

(***************************************************************************)
(* The constraint filter                                                   *)
(***************************************************************************)
\* applyConstraints without its lower absolute limit (Math.max(MIN_CURRENT, ...)).
applyConstraints_NoLowerLimit(control, currentState) ==
    LET c1 == IF Gt(currentState.temperature, 75 * SCALE)
              THEN Min(control, 150 * SCALE) ELSE control
        c2 == IF Gt(currentState.temperature, 78 * SCALE)
              THEN Min(c1, 120 * SCALE) ELSE c1
        c3 == IF Gt(currentState.voltage, 42 * SCALE)
              THEN Min(c2, 160 * SCALE) ELSE c2
        c4 == IF Lt(currentState.purity, 993 * (SCALE \div 10))
              THEN Min(c3, 140 * SCALE) ELSE c3
    IN  Min(MAX_CURRENT * SCALE, c4)

\* MPCAlgorithms.applyConstraints: control is a number in units of 1/SCALE.
applyConstraints(control, currentState) ==
    LET c1 == IF Gt(currentState.temperature, 75 * SCALE)
              THEN Min(control, 150 * SCALE) ELSE control
        c2 == IF Gt(currentState.temperature, 78 * SCALE)
              THEN Min(c1, 120 * SCALE) ELSE c1
        c3 == IF Gt(currentState.voltage, 42 * SCALE)
              THEN Min(c2, 160 * SCALE) ELSE c2
        c4 == IF Lt(currentState.purity, 993 * (SCALE \div 10))
              THEN Min(c3, 140 * SCALE) ELSE c3
    IN  Max(MIN_CURRENT * SCALE, Min(MAX_CURRENT * SCALE, c4))

\* applySafetyConstraints with the second temperature cap (> 78: 120) left out.
applySafetyConstraints_NoSecondCap(control, currentState) ==
    LET s1 == IF Gt(currentState.temperature, 75 * SCALE)
              THEN Min(control, 150 * SCALE) ELSE control
        s3 == IF Gt(currentState.voltage, 42 * SCALE)
              THEN Min(s1, 160 * SCALE) ELSE s1
        s4 == IF Lt(currentState.purity, 993 * (SCALE \div 10))
              THEN Min(s3, 140 * SCALE) ELSE s3
    IN  Max(100 * SCALE, Min(200 * SCALE, s4))

\* NeuralMPC.applySafetyConstraints.
applySafetyConstraints(control, currentState) ==
    LET s1 == IF Gt(currentState.temperature, 75 * SCALE)
              THEN Min(control, 150 * SCALE) ELSE control
        s2 == IF Gt(currentState.temperature, 78 * SCALE)
              THEN Min(s1, 120 * SCALE) ELSE s1
        s3 == IF Gt(currentState.voltage, 42 * SCALE)
              THEN Min(s2, 160 * SCALE) ELSE s2
        s4 == IF Lt(currentState.purity, 993 * (SCALE \div 10))
              THEN Min(s3, 140 * SCALE) ELSE s3
    IN  Max(100 * SCALE, Min(200 * SCALE, s4))

(***************************************************************************)
(* Inputs: the bounded sets the callers' arguments are drawn from          *)
(***************************************************************************)
\* Upper bound on a caller-supplied parameters.scenarios.
MaxScenarios == 2

\* Upper bound on the length of performanceHistory the model explores.
MaxHistory == 1

\* Upper bound on the train() runs suspended at one time.
MaxTrainRuns == 2

\* Upper bound on the weight updates of one train() run the model follows
\* where a run is not followed to its end.
MaxTrainSteps == 1

\* Upper bound on the weight updates of a run that is followed to its end:
\* the epochs over a batch of two samples.
MaxPasses == 200

\* Upper bound on the train() runs suspended at one time where runs are
\* followed to their end.
MaxFollowedRuns == 1

\* Upper bound on the train() runs the filling of the sample buffer leaves
\* suspended: one per hundred samples up to the cap, one per sample beyond.
MaxBufferRuns == 12

\* Samples collected in the specification of the sample buffer: past the
\* buffer's cap.
MaxArrivals == 1002

\* Samples collected in the specification of training: up to the first
\* automatic training run.
MaxTrainingArrivals == 100

\* Samples collected in the specification of the performance history.
MaxHistoryArrivals == 1

\* Records updatePerformance appends: past its cap.
MaxUpdates == 102

\* Reports updatePerformance is fed where their shape varies.
MaxReports == 3

\* Upper bound on the commands given to SimulinkBridge.sendToSimulink.
MaxCommands == 2

\* Upper bound on the connection timeouts of the bridge pending at one time.
MaxTimeouts == 2

\* Upper bound on the simulated-data intervals the bridge ever starts.
MaxIntervals == 3

\* Upper bound on the sockets MQTTClient.connect ever opens.
MaxSockets == 3

\* Upper bound on the connect() timeouts of MQTTClient pending at one time.
MaxConnects == 2

\* Upper bound on the updateComparison calls (snapshots) the model follows.
MaxSnapshots == 2

Productions == {Undef, Num(0), Num(20 * SCALE)}

\* 75.05 and 78.05 lie within one perturbation (0.1) of the 75 and 78 caps.
Temperatures == {Undef, Num(0), Num(65 * SCALE), Num(7505 * (SCALE \div 100)),
                 Num(7805 * (SCALE \div 100)), Num(79 * SCALE)}

Voltages == {Undef, Num(38 * SCALE), Num(43 * SCALE)}

Currents == {Undef, Num(150 * SCALE)}

Purities == {Undef, Num(992 * (SCALE \div 10)), Num(995 * (SCALE \div 10))}

\* ProcessState carries no reference; fallbackControl reads one all the same.
StateReferences == {Undef, Num(80 * SCALE)}

ProcessStates ==
    [production : Productions, temperature : Temperatures, voltage : Voltages,
     current : Currents, purity : Purities, reference : StateReferences]

\* The states the strategies are called with: ProcessState as the transport
\* layer delivers it (no reference field set).  No strategy reads
\* state.current, so it is left at its one defined value.
ControlStates == {s \in ProcessStates : s.reference = Undef /\ s.current # Undef}

References == {50 * SCALE, 100 * SCALE}

PreviousControls == {90 * SCALE, 150 * SCALE, 250 * SCALE}

\* Proposed controls handed to the filter: below, at and just above every cap.
ProposedControls ==
    {k * SCALE : k \in {0 - 50, 0, 99, 100, 101, 120, 121, 140, 141, 150, 151,
                        160, 161, 200, 201, 1000}}

Hours == {3, 12, 20}

\* Math.random() lies in [0, 1); two representatives: 0 and 0.75.
RandomDraws == {0, 75 * (SCALE \div 100)}

\* The network's denormalised output depends on the (random) weights.
NeuralOutputs == {50 * SCALE, 130 * SCALE, 155 * SCALE, 250 * SCALE}

NoOptions == [defined |-> FALSE, items |-> <<>>]

DefaultParameters ==
    [horizon |-> Undef, qWeight |-> Undef, rWeight |-> Undef, scenarios |-> Undef,
     uncertaintyLevel |-> Undef, discreteOptions |-> NoOptions]

NominalParameters ==
    [horizon |-> Num(10), qWeight |-> Num(10), rWeight |-> Num(1),
     scenarios |-> Num(MaxScenarios), uncertaintyLevel |-> Num(0),
     discreteOptions |-> NoOptions]

\* parameters = undefined takes the default {} (every field undefined).
ParameterSets ==
    {DefaultParameters, NominalParameters}
    \cup {[NominalParameters EXCEPT !.horizon = Num(51)],
          [NominalParameters EXCEPT !.horizon = Num(20)],
          [NominalParameters EXCEPT !.qWeight = Num(0)]}
    \cup {[NominalParameters EXCEPT !.scenarios = Num(n),
                                    !.uncertaintyLevel = Num(SCALE \div 10)] :
              n \in 1..MaxScenarios}
    \cup {[NominalParameters EXCEPT !.discreteOptions =
              [defined |-> TRUE, items |-> <<120 * SCALE, 180 * SCALE>>]]}

\* The arguments evaluateMPCCost is tried on directly.
CostHorizons == {1, 2, 10}

CostControls == {100 * SCALE, 150 * SCALE, 200 * SCALE}

\* The parameter objects validateParameters is tried on.
ValidationParameters ==
    ParameterSets
    \cup {[NominalParameters EXCEPT !.horizon = Num(h)] : h \in {0 - 1, 0, 1, 50}}
    \cup {[NominalParameters EXCEPT !.qWeight = Num(0 - 1)]}
    \cup {[NominalParameters EXCEPT !.rWeight = Num(r)] : r \in {0 - 1, 0}}

(***************************************************************************)
(* Decisions                                                               *)
(***************************************************************************)
\* What a call hands back.  kind: "none" (nothing returned yet), "decision",
\* "thrown" (an exception reached the caller), "errors" (validateParameters).
\* raisedInside records that an exception was raised and caught somewhere
\* inside the call, nested calls included.
NoResult ==
    [kind |-> "none", algorithm |-> "", control |-> Undef, cost |-> Undef,
     economicSetpoint |-> Undef, discreteOption |-> Undef,
     raisedInside |-> FALSE, errors |-> <<>>]

Decision(algorithm, control, cost, economicSetpoint, raisedInside) ==
    [kind |-> "decision", algorithm |-> algorithm, control |-> control,
     cost |-> cost, economicSetpoint |-> economicSetpoint,
     discreteOption |-> Undef, raisedInside |-> raisedInside, errors |-> <<>>]

\* JavaScript property lookup: a property the object lacks reads undefined.
Field(obj, name) == IF name \in DOMAIN obj THEN obj[name] ELSE Undef

(***************************************************************************)
(* MPCAlgorithms                                                           *)
(***************************************************************************)
\* fallbackControl: the decision it returns, after an exception was caught.
fallbackControl(currentState, previousControl) ==
    LET error == OrElse(currentState.reference, 50 * SCALE)
                 - OrElse(currentState.production, 0)
        \* proportionalGain = 0.5
        control == previousControl + (5 * error) \div 10
    IN  Decision("FALLBACK", Num(applyConstraints(control, currentState)),
                 Undef, Undef, TRUE)

\* A_MATRIX = 0.95 and B_MATRIX = 0.8, both over ModelDenominator.
A_MATRIX == 19

B_MATRIX == 16

ModelDenominator == 20

RECURSIVE PowDen(_)
PowDen(k) == IF k = 0 THEN 1 ELSE ModelDenominator * PowDen(k - 1)

\* The predicted state after k steps of state = A*state + B*control, as the
\* numerator of a fraction over PowDen(k) (state0 and control in one unit).
RECURSIVE predictedState(_, _, _)
predictedState(k, state0, control) ==
    IF k = 0 THEN state0
    ELSE A_MATRIX * predictedState(k - 1, state0, control)
         + B_MATRIX * PowDen(k - 1) * control

\* The loop of evaluateMPCCost (steps 0 .. horizon-1): totalCost as the
\* numerator of a fraction over PowDen(horizon)^2.
RECURSIVE costLoop(_, _, _, _, _, _, _)
costLoop(k, horizon, state0, control, reference, qWeight, rWeight) ==
    IF k >= horizon THEN 0
    ELSE LET trackingError == predictedState(k + 1, state0, control)
                              - reference * PowDen(k + 1)
             share == PowDen(horizon - (k + 1))
         IN  qWeight * trackingError * trackingError * share * share
             + (IF k > 0
                THEN rWeight * control * control * PowDen(horizon) * PowDen(horizon)
                ELSE 0)
             + costLoop(k + 1, horizon, state0, control, reference, qWeight, rWeight)

\* evaluateMPCCost.  After the loop, the terminal-cost line reads the
\* identifier `parameters`, which is bound neither in the method (its
\* parameters are currentState, control, reference, horizon, qWeight, rWeight)
\* nor in any enclosing scope: evaluating it raises a ReferenceError before
\* totalCost is returned.  horizon, qWeight and rWeight are JavaScript values.
evaluateMPCCost(currentState, control, reference, horizon, qWeight, rWeight) ==
    LET state0 == OrElse(currentState.production, 0)
        steps == IF IsNum(horizon) THEN horizon.v ELSE 0
        totalCost == costLoop(0, steps, state0, control, reference,
                              qWeight.v, rWeight.v)
    IN  [threw |-> TRUE, error |-> "ReferenceError", loopSteps |-> steps]

\* The grid of DeterministicMPC: MIN_CURRENT, MIN_CURRENT + stepSize, ... while
\* u <= MAX_CURRENT, with stepSize = (MAX_CURRENT - MIN_CURRENT) / 20.
gridPoints ==
    LET stepSize == ((MAX_CURRENT - MIN_CURRENT) * SCALE) \div GridSteps
    IN  {u \in {MIN_CURRENT * SCALE + i * stepSize : i \in 0..GridSteps} :
             u <= MAX_CURRENT * SCALE}

\* DeterministicMPC.  The first evaluateMPCCost of the grid loop raises, the
\* catch block returns fallbackControl(currentState, previousControl).  Were no
\* evaluation to raise, the decision would carry the first grid point of
\* minimal cost, filtered by applyConstraints.
DeterministicMPC(currentState, reference, previousControl, parameters) ==
    LET horizon == Default(parameters.horizon, Num(10))
        qWeight == Default(parameters.qWeight, Num(10))
        rWeight == Default(parameters.rWeight, Num(1))
        eval(u) == evaluateMPCCost(currentState, u, reference, horizon,
                                   qWeight, rWeight)
        cost(u) == costLoop(0, horizon.v, OrElse(currentState.production, 0), u,
                            reference, qWeight.v, rWeight.v)
        best == CHOOSE u \in gridPoints :
                    \A w \in gridPoints :
                        cost(u) < cost(w) \/ (cost(u) = cost(w) /\ u <= w)
    IN  IF \E u \in gridPoints : eval(u).threw
        THEN fallbackControl(currentState, previousControl)
        ELSE Decision("DETERMINISTIC", Num(applyConstraints(best, currentState)),
                      Num(cost(best)), Undef, FALSE)

\* addUncertainty with the noise not scaled by uncertaintyLevel.
addUncertainty_UnscaledNoise(state, uncertaintyLevel, random1, random2) ==
    LET noise(r) == (r - SCALE \div 2) * 2
    IN  [state EXCEPT
           !.production =
               IF Truthy(state.production)
               THEN Num(state.production.v
                        + (noise(random1) * (state.production.v \div SCALE)))
               ELSE Num(0),
           !.temperature =
               IF Truthy(state.temperature)
               THEN Num(state.temperature.v + noise(random2))
               ELSE Num(65 * SCALE)]

\* addUncertainty on a state object; random1 and random2 are the values the two
\* Math.random() calls return (production first, then temperature).
addUncertainty(state, uncertaintyLevel, random1, random2) ==
    LET noise(r) == (((r - SCALE \div 2) * 2) * uncertaintyLevel) \div SCALE
    IN  [state EXCEPT
           !.production =
               IF Truthy(state.production)
               THEN Num(state.production.v
                        + (noise(random1) * state.production.v) \div SCALE)
               ELSE Num(0),
           !.temperature =
               IF Truthy(state.temperature)
               THEN Num(state.temperature.v + noise(random2))
               ELSE Num(65 * SCALE)]

\* applyRobustnessMargin.
applyRobustnessMargin(control, currentState) ==
    LET m1 == IF Gt(currentState.temperature, 75 * SCALE) THEN 0 - 10 * SCALE ELSE 0
        m2 == IF Lt(currentState.purity, 993 * (SCALE \div 10))
              THEN m1 - 5 * SCALE ELSE m1
        margin == IF Gt(currentState.voltage, 42 * SCALE) THEN m2 - 8 * SCALE ELSE m2
    IN  Max(MIN_CURRENT * SCALE, Min(MAX_CURRENT * SCALE, control + margin))

\* StochasticMPC's default for parameters.scenarios.
DefaultScenarios == 5

\* StochasticMPC, one pass of its loop body: the decision of the nested
\* DeterministicMPC on the perturbed state.
stochasticScenario(currentState, reference, previousControl, parameters, random1, random2) ==
    LET uncertaintyLevel == Default(parameters.uncertaintyLevel, Num(SCALE \div 10))
        uncertainState == addUncertainty(currentState, uncertaintyLevel.v,
                                         random1, random2)
    IN  DeterministicMPC(uncertainState, reference, previousControl, parameters)

RECURSIVE SumSeq(_)
SumSeq(seq) == IF seq = <<>> THEN 0 ELSE Head(seq) + SumSeq(Tail(seq))

\* StochasticMPC after its loop: the mean of the scenario controls, then the
\* robustness margin on the caller's state.  The decision is built in the try
\* block; no FALLBACK decision of a nested call changes its algorithm.
stochasticReturn(currentState, parameters, controls, nestedRaised) ==
    LET scenarios == Default(parameters.scenarios, Num(DefaultScenarios))
        robustControl == SumSeq(controls) \div scenarios.v
        finalControl == applyRobustnessMargin(robustControl, currentState)
    IN  Decision("STOCHASTIC", Num(finalControl), Undef, Undef, nestedRaised)

\* upperLayerEconomicOptimization returning reference * (1 + adjustment) as it
\* is, without the clamp to [0, 100].
upperLayerEconomicOptimization_NoClamp(currentState, reference, parameters, timeOfDay) ==
    LET a1 == IF timeOfDay >= 0 /\ timeOfDay < 6 THEN SCALE \div 10
              ELSE IF timeOfDay >= 18 /\ timeOfDay < 24 THEN 0 - SCALE \div 10
              ELSE 0
        a2 == IF Gt(currentState.temperature, 75 * SCALE)
              THEN a1 - 5 * (SCALE \div 100) ELSE a1
        economicAdjustment == IF Lt(currentState.purity, 993 * (SCALE \div 10))
                              THEN a2 - SCALE \div 10 ELSE a2
    IN  (reference \div 100) * ((SCALE + economicAdjustment) \div 100)

\* upperLayerEconomicOptimization; timeOfDay is new Date().getHours().
upperLayerEconomicOptimization(currentState, reference, parameters, timeOfDay) ==
    LET a1 == IF timeOfDay >= 0 /\ timeOfDay < 6 THEN SCALE \div 10
              ELSE IF timeOfDay >= 18 /\ timeOfDay < 24 THEN 0 - SCALE \div 10
              ELSE 0
        a2 == IF Gt(currentState.temperature, 75 * SCALE)
              THEN a1 - 5 * (SCALE \div 100) ELSE a1
        economicAdjustment == IF Lt(currentState.purity, 993 * (SCALE \div 10))
                              THEN a2 - SCALE \div 10 ELSE a2
        \* reference * (1 + economicAdjustment), both multiples of 1/100
        economicSetpoint == (reference \div 100) * ((SCALE + economicAdjustment) \div 100)
    IN  Max(0, Min(100 * SCALE, economicSetpoint))

\* x * 2 in JavaScript: NaN unless x is a number.
Times2(x) == IF IsNum(x) THEN Num(2 * x.v) ELSE NaN

\* The parameters lowerLayerTrackingMPC hands to DeterministicMPC:
\* {...parameters, horizon: 5, qWeight: parameters.qWeight * 2}.
lowerLayerParameters(parameters) ==
    [parameters EXCEPT !.horizon = Num(5),
                       !.qWeight = Times2(parameters.qWeight)]

\* lowerLayerTrackingMPC: DeterministicMPC(...).then(result => result.control),
\* a promise of the nested decision's control (decision kept for raisedInside).
lowerLayerTrackingMPC(currentState, reference, previousControl, parameters) ==
    LET nested == DeterministicMPC(currentState, reference, previousControl,
                                   lowerLayerParameters(parameters))
    IN  [control |-> PromiseOf(nested.control.v), raisedInside |-> nested.raisedInside]

\* HEMPC: the promise lowerLayerTrackingMPC returns is stored in the decision
\* as it is (the call is not awaited).
HEMPC(currentState, reference, previousControl, parameters, timeOfDay) ==
    LET economicSetpoint == upperLayerEconomicOptimization(currentState, reference,
                                                           parameters, timeOfDay)
        lower == lowerLayerTrackingMPC(currentState, economicSetpoint,
                                       previousControl, parameters)
    IN  Decision("HEMPC", lower.control, Undef, Num(economicSetpoint),
                 lower.raisedInside)

\* HybridMPC's default for parameters.discreteOptions.
DefaultDiscreteOptions == <<100 * SCALE, 150 * SCALE, 200 * SCALE>>

\* The values u the inner loop of HybridMPC visits around one discrete option.
hybridRange(discreteControl) ==
    LET start == Max(MIN_CURRENT * SCALE, discreteControl - 20 * SCALE)
        end == Min(MAX_CURRENT * SCALE, discreteControl + 20 * SCALE)
    IN  {u \in {start + i * (5 * SCALE) : i \in 0..8} : u <= end}

\* HybridMPC.  The first evaluateMPCCost raises and the catch block returns
\* fallbackControl.  When no option has a value to visit, nothing is evaluated
\* and previousControl is returned as it came, with cost Number.MAX_VALUE.
HybridMPC(currentState, reference, previousControl, parameters) ==
    LET horizon == Default(parameters.horizon, Num(10))
        qWeight == Default(parameters.qWeight, Num(10))
        rWeight == Default(parameters.rWeight, Num(1))
        discreteOptions == IF parameters.discreteOptions.defined
                           THEN parameters.discreteOptions.items
                           ELSE DefaultDiscreteOptions
        points == UNION {{<<i, u>> : u \in hybridRange(discreteOptions[i])} :
                            i \in DOMAIN discreteOptions}
        eval(p) == evaluateMPCCost(currentState, p[2], reference, horizon,
                                   qWeight, rWeight)
        cost(p) == costLoop(0, horizon.v, OrElse(currentState.production, 0), p[2],
                            reference, qWeight.v, rWeight.v)
        before(p, q) == p[1] < q[1] \/ (p[1] = q[1] /\ p[2] <= q[2])
        best == CHOOSE p \in points :
                    \A q \in points :
                        cost(p) < cost(q) \/ (cost(p) = cost(q) /\ before(p, q))
    IN  IF points = {}
        THEN [Decision("HYBRID", Num(previousControl),
                       [t |-> "Number.MAX_VALUE", v |-> 0], Undef, FALSE)
                 EXCEPT !.discreteOption =
                            IF discreteOptions = <<>> THEN Undef
                            ELSE Num(discreteOptions[1])]
        ELSE IF \E p \in points : eval(p).threw
        THEN fallbackControl(currentState, previousControl)
        ELSE [Decision("HYBRID", Num(best[2]), Num(cost(best)), Undef, FALSE)
                 EXCEPT !.discreteOption = Num(discreteOptions[best[1]])]

\* validateParameters: the array of error messages.
validateParameters(parameters) ==
    (IF Truthy(parameters.horizon)
        /\ (parameters.horizon.v < 1 \/ parameters.horizon.v > 50)
     THEN <<"Horizon must be between 1 and 50">> ELSE <<>>)
    \o (IF Truthy(parameters.qWeight) /\ parameters.qWeight.v <= 0
        THEN <<"Q weight must be positive">> ELSE <<>>)
    \o (IF Truthy(parameters.rWeight) /\ parameters.rWeight.v <= 0
        THEN <<"R weight must be positive">> ELSE <<>>)

(***************************************************************************)
(* NeuralMPC                                                               *)
(***************************************************************************)
\* What localStorage holds under 'neural_mpc_model' when the predictor is built.
StoredRecords == {"absent", "unparseable", "null", "objectWithoutWeights", "model"}

\* loadModel: a stored record that parses to an object is taken as the model,
\* whatever it holds; every other record leads to initializeModel().
loadModel(savedModel) ==
    [isInitialized |-> TRUE,
     modelWellFormed |-> savedModel # "objectWithoutWeights",
     modelFresh |-> savedModel \notin {"objectWithoutWeights", "model"}]

\* The length beyond which recordPerformance drops the oldest record.
PerformanceCap == 1000

\* timestamp: Date.now() of a new element of a buffer: the clock is taken to
\* have advanced by one tick since the buffer's newest element.
nextTimestamp(buffer) ==
    IF buffer = <<>> THEN 1 ELSE buffer[Len(buffer)].timestamp + 1

\* recordPerformance: the history after the push (and the shift beyond the cap).
recordPerformance(history, control, currentState, reference) ==
    LET rate == Field(currentState, "h2ProductionRate")
        trackingError == IF IsNum(rate)
                         THEN Num(IF rate.v * 3600 >= reference
                                  THEN rate.v * 3600 - reference
                                  ELSE reference - rate.v * 3600)
                         ELSE NaN
        \* computationTime: Date.now() - startTime, the clock taken not to
        \* have advanced while predict was awaited.
        pushed == Append(history, [trackingError |-> trackingError,
                                   computationTime |-> Num(0),
                                   control |-> control,
                                   timestamp |-> nextTimestamp(history)])
    IN  IF Len(pushed) > PerformanceCap THEN Tail(pushed) ELSE pushed

\* The length beyond which updatePerformance drops the oldest record.
UpdateCap == 100

\* updatePerformance: {...performanceData, timestamp: Date.now()} is pushed.
updatePerformance(history, performanceData) ==
    LET pushed == Append(history, [trackingError |-> Field(performanceData, "trackingError"),
                                   computationTime |-> Field(performanceData, "computationTime"),
                                   control |-> Undef,
                                   timestamp |-> nextTimestamp(history)])
    IN  IF Len(pushed) > UpdateCap THEN Tail(pushed) ELSE pushed

\* The length beyond which collectTrainingData drops the oldest sample.
TrainingCap == 1000

\* collectTrainingData starts train() when the length is a multiple of this.
AutoTrainEvery == 100

\* The number of most recent samples collectTrainingData trains on.
AutoTrainBatch == 200

\* The number of most recent samples evaluatePerformance trains on.
RetrainBatch == 300

\* The number of most recent records evaluatePerformance averages.
RecentWindow == 10

\* The average tracking error above which evaluatePerformance retrains.
DegradationThreshold == 5

\* train(trainingData), from its call to its first await, for a batch of
\* batchLength samples: an empty batch returns at once; otherwise predict is
\* called for the first sample, and raises (caught by train, which then ends)
\* when the model lacks its weights; the run is then suspended at its await.
\* origin is "call" when train is started within a caller's task (by
\* collectTrainingData) and "timer" when started by the interval callback.
train(runs, batchLength, wellFormed, origin) ==
    IF batchLength = 0 \/ ~wellFormed
    THEN runs
    ELSE Append(runs, [origin |-> origin, batch |-> batchLength, updates |-> 0,
                       beforeReset |-> FALSE])

\* networkConfig.epochs.
Epochs == 100

\* The number of passes (predict, await, updateWeights) of a run: the epochs
\* over the batch.
passes(run) == Epochs * run.batch

\* collectTrainingData, the buffer: push, then shift beyond the cap.
collectTrainingData(samples) ==
    LET pushed == Append(samples, [timestamp |-> nextTimestamp(samples)])
    IN  IF Len(pushed) > TrainingCap THEN Tail(pushed) ELSE pushed

\* evaluatePerformance: whether it calls train() (the average tracking error of
\* the last 10 records exceeds 5.0; a record without a numeric trackingError
\* makes the average NaN, and NaN > 5.0 is false).
degradationDetected(history) ==
    LET first == IF Len(history) > RecentWindow
                 THEN Len(history) - RecentWindow + 1 ELSE 1
        recent == SubSeq(history, first, Len(history))
        errors == [i \in DOMAIN recent |-> recent[i].trackingError]
    IN  /\ history # <<>>
        /\ \A i \in DOMAIN errors : IsNum(errors[i])
        /\ SumSeq([i \in DOMAIN errors |-> errors[i].v])
             > DegradationThreshold * SCALE * Len(recent)

\* computeControl falling back on the defaulted network input (nnInput) instead
\* of the caller's state.
computeControl_FallbackOnInput(currentState, reference, previousControl, initialized, wellFormed, output) ==
    LET nnInput == [currentState EXCEPT
                       !.production = Num(OrElse(Field(currentState, "h2ProductionRate"), 0)),
                       !.temperature = Num(OrElse(Field(currentState, "cellTemperature"), 65 * SCALE)),
                       !.voltage = Num(OrElse(Field(currentState, "stackVoltage"), 38 * SCALE)),
                       !.purity = Num(OrElse(Field(currentState, "o2Purity"), 995 * (SCALE \div 10)))]
    IN  IF ~initialized
        THEN [NoResult EXCEPT !.kind = "thrown"]
        ELSE IF ~wellFormed
        THEN [DeterministicMPC(nnInput, reference, previousControl, DefaultParameters)
                 EXCEPT !.raisedInside = TRUE]
        ELSE Decision("NEURAL_MPC", Num(applySafetyConstraints(output, currentState)),
                      Undef, Undef, FALSE)

\* computeControl: the decision it hands back.  predict raises (a TypeError on
\* this.model.weights[...]) exactly when the model lacks its weights; output is
\* the control the network predicts otherwise.
computeControl(currentState, reference, previousControl, initialized, wellFormed, output) ==
    IF ~initialized
    THEN [NoResult EXCEPT !.kind = "thrown"]
    ELSE IF ~wellFormed
    THEN [DeterministicMPC(currentState, reference, previousControl, DefaultParameters)
             EXCEPT !.raisedInside = TRUE]
    ELSE Decision("NEURAL_MPC", Num(applySafetyConstraints(output, currentState)),
                  Undef, Undef, FALSE)

(***************************************************************************)
(* MPCComparator                                                           *)
(***************************************************************************)
\* const strategies = ['hempc', 'deterministic', 'stochastic', 'hybrid'].
StrategyOrder == <<"hempc", "deterministic", "stochastic", "hybrid">>

ComparedStrategies == {StrategyOrder[i] : i \in DOMAIN StrategyOrder}

\* comparisonData[strategy] === null.
NullData ==
    [present |-> FALSE, operationalCost |-> Undef, h2Production |-> Undef,
     current |-> Undef, efficiency |-> Undef, computationTime |-> Undef,
     stability |-> Undef, robustness |-> Undef]

\* A data object with the six figures the metrics read.
ComparisonRecord(cost, production, efficiency, computation, stability, robustness) ==
    [present |-> TRUE, operationalCost |-> cost, h2Production |-> production,
     current |-> Undef, efficiency |-> efficiency, computationTime |-> computation,
     stability |-> stability, robustness |-> robustness]

\* The data objects the comparison messages carry for a strategy.  Overall
\* scores: 83; 83 again from other figures; 77; -2 (efficiency below 0 and
\* every other figure at its worst); 85 or 79 (computationTime missing, drawn
\* at random); 63 (operationalCost missing, derived from current and
\* h2Production); 111 (efficiency and robustness above 100 and every other
\* figure at its best).
ComparisonRecords ==
    {ComparisonRecord(Num(0), Num(125 * (SCALE \div 10000)), Num(150 * SCALE),
                      Num(0), Num(0), Num(120 * SCALE)),
     ComparisonRecord(Num(3 * SCALE), Num(SCALE \div 100), Num(80 * SCALE),
                      Num(20 * SCALE), Num(2 * SCALE), Num(90 * SCALE)),
     ComparisonRecord(Num(3 * SCALE), Num(SCALE \div 100), Num(85 * SCALE),
                      Num(20 * SCALE), Num(2 * SCALE), Num(70 * SCALE)),
     ComparisonRecord(Num(3 * SCALE), Num(SCALE \div 100), Num(50 * SCALE),
                      Num(20 * SCALE), Num(2 * SCALE), Num(90 * SCALE)),
     ComparisonRecord(Num(15 * SCALE), Num(0), Num(0 - 10 * SCALE),
                      Num(100 * SCALE), Num(10 * SCALE), Num(0)),
     ComparisonRecord(Num(3 * SCALE), Num(SCALE \div 100), Num(81 * SCALE),
                      Undef, Num(2 * SCALE), Num(90 * SCALE)),
     [ComparisonRecord(Undef, Num(SCALE \div 100), Num(80 * SCALE),
                       Num(20 * SCALE), Num(2 * SCALE), Num(90 * SCALE))
         EXCEPT !.current = Num(110 * SCALE)]}

\* updateComparison(null).
NullMessage == [present |-> FALSE, data |-> [s \in ComparedStrategies |-> NullData]]

\* The messages updateComparison is fed: none, data for one strategy, data for
\* all four at once.
ComparisonMessages ==
    {NullMessage}
    \cup {[present |-> TRUE,
           data |-> [s \in ComparedStrategies |-> IF s = t THEN d ELSE NullData]] :
              t \in ComparedStrategies, d \in ComparisonRecords}
    \cup {[present |-> TRUE, data |-> [s \in ComparedStrategies |-> d]] :
              d \in {ComparisonRecord(Num(3 * SCALE), Num(SCALE \div 100),
                                      Num(80 * SCALE), Num(20 * SCALE),
                                      Num(2 * SCALE), Num(90 * SCALE))}}

\* calculateCostMetric; random is what Math.random() returns.
calculateCostMetric(data, random) ==
    IF data.operationalCost # Undef THEN data.operationalCost.v
    ELSE IF Truthy(data.current) /\ Truthy(data.h2Production)
    THEN ((data.current.v \div 10) * SCALE)
         \div (data.h2Production.v + SCALE \div 1000)
    ELSE random * 10 + 5 * SCALE

calculateProductionMetric(data, random) ==
    IF data.h2Production # Undef THEN data.h2Production.v * 3600
    ELSE random * 30 + 10 * SCALE

calculateEfficiencyMetric(data, random) ==
    IF data.efficiency # Undef THEN data.efficiency.v
    ELSE IF Truthy(data.current) /\ Truthy(data.h2Production)
    THEN (data.h2Production.v * SCALE * 1000)
         \div (data.current.v + SCALE \div 1000)
    ELSE random * 20 + 60 * SCALE

calculateComputationMetric(data, random) ==
    IF data.computationTime # Undef THEN data.computationTime.v
    ELSE random * 50 + 10 * SCALE

calculateStabilityMetric(data, random) ==
    IF data.stability # Undef THEN data.stability.v
    ELSE random * 5 + 1 * SCALE

calculateRobustnessMetric(data, random) ==
    IF data.robustness # Undef THEN data.robustness.v
    ELSE random * 20 + 80 * SCALE

\* performanceMetrics has no entry for the strategy.
NoMetrics ==
    [present |-> FALSE, cost |-> 0, production |-> 0, efficiency |-> 0,
     computation |-> 0, stability |-> 0, robustness |-> 0]

\* calculatePerformanceMetrics: an entry for every strategy that has data, in
\* the order of StrategyOrder; draws[s] is what Math.random() returns while
\* the metrics of strategy s are computed.
calculatePerformanceMetrics(data, draws) ==
    [s \in ComparedStrategies |->
        IF ~data[s].present THEN NoMetrics
        ELSE [present |-> TRUE,
              cost |-> calculateCostMetric(data[s], draws[s]),
              production |-> calculateProductionMetric(data[s], draws[s]),
              efficiency |-> calculateEfficiencyMetric(data[s], draws[s]),
              computation |-> calculateComputationMetric(data[s], draws[s]),
              stability |-> calculateStabilityMetric(data[s], draws[s]),
              robustness |-> calculateRobustnessMetric(data[s], draws[s])]]

\* calculateOverallScore: the weights in hundredths, Math.round of the
\* weighted sum over the total weight (every metric is defined, the total
\* weight is 1).
calculateOverallScore(metrics) ==
    LET cost == Max(0, 100 * SCALE - (metrics.cost * 100) \div 15)
        production == Min(100 * SCALE, (metrics.production * 100) \div 40)
        efficiency == metrics.efficiency
        computation == Max(0, 100 * SCALE - metrics.computation)
        stability == Max(0, 100 * SCALE - metrics.stability * 10)
        robustness == metrics.robustness
        score == cost * 25 + production * 25 + efficiency * 20
                 + computation * 15 + stability * 10 + robustness * 5
    IN  (score + 50 * SCALE) \div (100 * SCALE)

\* calculateOverallScores: Object.entries(performanceMetrics) in insertion
\* order, which is the order calculatePerformanceMetrics filled it in.
calculateOverallScores(metrics) ==
    SelectSeq([i \in DOMAIN StrategyOrder |->
                  [strategy |-> StrategyOrder[i],
                   present |-> metrics[StrategyOrder[i]].present,
                   score |-> calculateOverallScore(metrics[StrategyOrder[i]])]],
              LAMBDA entry : entry.present)

\* The loop of getBestPerformingStrategy over the entries from index i on.
RECURSIVE bestFrom(_, _, _)
bestFrom(scores, i, best) ==
    IF i > Len(scores) THEN best
    ELSE bestFrom(scores, i + 1,
                  IF scores[i].score > best.score
                  THEN [strategy |-> scores[i].strategy, score |-> scores[i].score]
                  ELSE best)

\* getBestPerformingStrategy: bestStrategy = null and bestScore = -1 to start.
getBestPerformingStrategy(metrics) ==
    bestFrom(calculateOverallScores(metrics), 1, [strategy |-> "null", score |-> 0 - 1])

\* The length beyond which storeComparisonSnapshot drops the oldest snapshot.
SnapshotCap == 100

\* storeComparisonSnapshot.
storeComparisonSnapshot(history, metrics) ==
    LET pushed == Append(history, [overallScores |-> calculateOverallScores(metrics)])
    IN  IF Len(pushed) > SnapshotCap THEN Tail(pushed) ELSE pushed

(***************************************************************************)
(* SimulinkBridge and MQTTClient                                           *)
(***************************************************************************)
\* maxReconnectAttempts, of MQTTClient and of SimulinkBridge alike.
maxReconnectAttempts == 5

\* MQTTClient.handleReconnection: the client and the timers after it; one
\* setTimeout of connect() below the limit, none at it.  scheduled counts the
\* connect attempts scheduled since the last 'connect' event.
handleReconnection_NoLimit(client, pending) ==
    [client |-> [client EXCEPT !.reconnectAttempts = @ + 1,
                               !.scheduled = @ + 1],
     timers |-> [pending EXCEPT !.connects = @ + 1]]

handleReconnection(client, pending) ==
    IF client.reconnectAttempts < maxReconnectAttempts
    THEN [client |-> [client EXCEPT !.reconnectAttempts = @ + 1,
                                    !.scheduled = @ + 1],
          timers |-> [pending EXCEPT !.connects = @ + 1]]
    ELSE [client |-> client, timers |-> pending]

\* MQTTClient.sendControlCommand: whether socket.emit is reached.
sendControlCommand(client) == client.isConnected

\* SimulinkBridge.sendToSimulink on a connected bridge: what the socket has
\* emitted afterwards (the value sendControlCommand returns is dropped).
sendToSimulink(emitted, client, command) ==
    IF sendControlCommand(client) THEN Append(emitted, command) ELSE emitted

\* The while loop of processControlQueue on a connected bridge: every command
\* is shifted off the queue and handed to sendToSimulink.
RECURSIVE drainQueue(_, _, _)
drainQueue(queue, emitted, client) ==
    IF queue = <<>> THEN emitted
    ELSE drainQueue(Tail(queue), sendToSimulink(emitted, client, Head(queue)), client)

\* SimulinkBridge.disconnect: the bridge and the timers after it.
disconnect(bridge, pending) ==
    [bridge |-> [bridge EXCEPT !.isConnected = FALSE],
     timers |-> IF bridge.simulationInterval # 0
                THEN [pending EXCEPT !.intervals = @ \ {bridge.simulationInterval}]
                ELSE pending]

\* SimulinkBridge.setupMQTTConnection: one more connection timeout pending;
\* origin names who called it.
setupMQTTConnection(pending, origin) ==
    [pending EXCEPT !.timeouts = Append(@, origin)]

(***************************************************************************)
(* The state machine                                                       *)
(***************************************************************************)
NominalState ==
    [production |-> Num(0), temperature |-> Num(65 * SCALE),
     voltage |-> Num(38 * SCALE), current |-> Num(150 * SCALE),
     purity |-> Num(995 * (SCALE \div 10)), reference |-> Undef]

NoRequest ==
    [op |-> "none", state |-> NominalState, reference |-> 0, previousControl |-> 0,
     parameters |-> DefaultParameters, timeOfDay |-> 0, isEmergency |-> FALSE,
     control |-> 0]

Request(op, state, reference, previousControl, parameters) ==
    [NoRequest EXCEPT !.op = op, !.state = state, !.reference = reference,
                      !.previousControl = previousControl,
                      !.parameters = parameters]

\* Nothing handed back by getBestPerformingStrategy.
NoReport == [returned |-> FALSE, strategy |-> "null", score |-> 0 - 1]

Init ==
    /\ request = NoRequest
    /\ result = NoResult
    /\ pc = "idle"
    /\ scenarioControls = <<>>
    /\ scenarioCosts = <<>>
    /\ scenarioRaised = FALSE
    /\ \E savedModel \in StoredRecords :
           /\ storage = savedModel
           /\ isInitialized = loadModel(savedModel).isInitialized
           /\ modelWellFormed = loadModel(savedModel).modelWellFormed
           /\ modelFresh = loadModel(savedModel).modelFresh
    /\ performanceHistory = <<>>
    /\ modelTrained = FALSE
    /\ trainingData = <<>>
    /\ training = <<>>
    /\ comparisonData = [s \in ComparedStrategies |-> NullData]
    /\ performanceMetrics = [s \in ComparedStrategies |-> NoMetrics]
    /\ comparisonHistory = <<>>
    /\ report = NoReport
    /\ simulinkBridge = [isConnected |-> FALSE, controlQueue |-> <<>>,
                         reconnectAttempts |-> 0, simulationInterval |-> 0]
    /\ mqttClient = [isConnected |-> FALSE, reconnectAttempts |-> 0,
                     sockets |-> <<"opening">>, scheduled |-> 0]
    /\ timers = [timeouts |-> <<"init">>, intervals |-> {}, started |-> 0,
                 connects |-> 0]
    /\ wire = [given |-> 0, emitted |-> <<>>]

loopVars == <<scenarioControls, scenarioCosts, scenarioRaised>>

neuralVars == <<isInitialized, modelWellFormed, performanceHistory, storage,
                modelTrained, modelFresh, trainingData, training>>

comparatorVars == <<comparisonData, performanceMetrics, comparisonHistory, report>>

transportVars == <<simulinkBridge, mqttClient, timers, wire>>

\* A train() run started by the interval callback is suspended: the task of
\* the callback is not over until that run is, and no other task (no call from
\* outside) runs before.
TimerRunActive == \E i \in DOMAIN training : training[i].origin = "timer"

\* A caller applies the filter of MPCAlgorithms to a proposed control.
CallApplyConstraints ==
    /\ pc = "idle"
    /\ \E control \in ProposedControls, state \in ProcessStates :
           /\ request' = [NoRequest EXCEPT !.op = "applyConstraints",
                                           !.state = state, !.control = control]
           /\ result' = [NoResult EXCEPT !.kind = "value",
                            !.control = Num(applyConstraints(control, state))]
    /\ pc' = "done"
    /\ UNCHANGED <<loopVars, neuralVars, comparatorVars, transportVars>>

\* A caller applies the filter of NeuralMPC to a proposed control.
CallApplySafetyConstraints ==
    /\ pc = "idle"
    /\ \E control \in ProposedControls, state \in ProcessStates :
           /\ request' = [NoRequest EXCEPT !.op = "applySafetyConstraints",
                                           !.state = state, !.control = control]
           /\ result' = [NoResult EXCEPT !.kind = "value",
                            !.control = Num(applySafetyConstraints(control, state))]
    /\ pc' = "done"
    /\ UNCHANGED <<loopVars, neuralVars, comparatorVars, transportVars>>

CallDeterministicMPC ==
    /\ pc = "idle"
    /\ \E state \in ControlStates, reference \in References,
          previousControl \in PreviousControls, parameters \in ParameterSets :
           /\ request' = Request("DETERMINISTIC", state, reference,
                                 previousControl, parameters)
           /\ result' = DeterministicMPC(state, reference, previousControl, parameters)
    /\ pc' = "done"
    /\ UNCHANGED <<loopVars, neuralVars, comparatorVars, transportVars>>

CallHybridMPC ==
    /\ pc = "idle"
    /\ \E state \in ControlStates, reference \in References,
          previousControl \in PreviousControls, parameters \in ParameterSets :
           /\ request' = Request("HYBRID", state, reference,
                                 previousControl, parameters)
           /\ result' = HybridMPC(state, reference, previousControl, parameters)
    /\ pc' = "done"
    /\ UNCHANGED <<loopVars, neuralVars, comparatorVars, transportVars>>

\* The context (isEmergency) is what getCurrentContext() would report at the
\* time of the call; HEMPC does not read it.
CallHEMPC ==
    /\ pc = "idle"
    /\ \E state \in ControlStates, reference \in References,
          previousControl \in PreviousControls, parameters \in ParameterSets,
          timeOfDay \in Hours, isEmergency \in BOOLEAN :
           /\ request' = [Request("HEMPC", state, reference, previousControl,
                                  parameters)
                             EXCEPT !.timeOfDay = timeOfDay,
                                    !.isEmergency = isEmergency]
           /\ result' = HEMPC(state, reference, previousControl, parameters,
                              timeOfDay)
    /\ pc' = "done"
    /\ UNCHANGED <<loopVars, neuralVars, comparatorVars, transportVars>>

\* StochasticMPC up to its loop.
StochasticMPCEnter ==
    /\ pc = "idle"
    /\ \E state \in ControlStates, reference \in References,
          previousControl \in PreviousControls, parameters \in ParameterSets :
           request' = Request("STOCHASTIC", state, reference,
                              previousControl, parameters)
    /\ result' = NoResult
    /\ pc' = "stochastic"
    /\ scenarioControls' = <<>>
    /\ scenarioCosts' = <<>>
    /\ scenarioRaised' = FALSE
    /\ UNCHANGED <<neuralVars, comparatorVars, transportVars>>

\* One pass of the loop: for (let i = 0; i < scenarios; i++) { ... await ... }.
StochasticMPCScenario ==
    /\ pc = "stochastic"
    /\ Len(scenarioControls)
         < Default(request.parameters.scenarios, Num(DefaultScenarios)).v
    /\ \E random1 \in RandomDraws, random2 \in RandomDraws :
           LET nested == stochasticScenario(request.state, request.reference,
                             request.previousControl, request.parameters,
                             random1, random2)
           IN  /\ scenarioControls' = Append(scenarioControls, nested.control.v)
               /\ scenarioCosts' = Append(scenarioCosts, nested.cost)
               /\ scenarioRaised' = (scenarioRaised \/ nested.raisedInside)
    /\ UNCHANGED <<request, result, pc, neuralVars, comparatorVars, transportVars>>

\* The loop is over: StochasticMPC returns its decision and its locals are gone.
StochasticMPCReturn ==
    /\ pc = "stochastic"
    /\ ~(Len(scenarioControls)
           < Default(request.parameters.scenarios, Num(DefaultScenarios)).v)
    /\ result' = stochasticReturn(request.state, request.parameters,
                                  scenarioControls, scenarioRaised)
    /\ pc' = "done"
    /\ scenarioControls' = <<>>
    /\ scenarioCosts' = <<>>
    /\ scenarioRaised' = FALSE
    /\ UNCHANGED <<request, neuralVars, comparatorVars, transportVars>>

\* evaluateMPCCost called on its own; horizon, qWeight and rWeight arrive as
\* plain arguments (kept in the request's parameters).
CallEvaluateMPCCost ==
    /\ pc = "idle"
    /\ \E production \in Productions, control \in CostControls,
          reference \in References, horizon \in CostHorizons :
           LET state == [NominalState EXCEPT !.production = production]
               parameters == [NominalParameters EXCEPT !.horizon = Num(horizon)]
               outcome == evaluateMPCCost(state, control, reference,
                              parameters.horizon, parameters.qWeight,
                              parameters.rWeight)
           IN  /\ request' = [NoRequest EXCEPT !.op = "evaluateMPCCost",
                                 !.state = state, !.control = control,
                                 !.reference = reference,
                                 !.parameters = parameters]
               /\ result' = IF outcome.threw
                             THEN [NoResult EXCEPT !.kind = "thrown"]
                             ELSE [NoResult EXCEPT !.kind = "value",
                                      !.cost = Num(costLoop(0, horizon,
                                                   OrElse(production, 0), control,
                                                   reference, parameters.qWeight.v,
                                                   parameters.rWeight.v))]
    /\ pc' = "done"
    /\ UNCHANGED <<loopVars, neuralVars, comparatorVars, transportVars>>

CallValidateParameters ==
    /\ pc = "idle"
    /\ \E parameters \in ValidationParameters :
           /\ request' = [NoRequest EXCEPT !.op = "validateParameters",
                                           !.parameters = parameters]
           /\ result' = [NoResult EXCEPT !.kind = "errors",
                            !.errors = validateParameters(parameters)]
    /\ pc' = "done"
    /\ UNCHANGED <<loopVars, neuralVars, comparatorVars, transportVars>>

\* NeuralMPC.computeControl, with recordPerformance on the predictor path.
CallComputeControl ==
    /\ pc = "idle"
    /\ ~TimerRunActive
    /\ Len(performanceHistory) < MaxHistory
    /\ \E state \in ControlStates, reference \in References,
          previousControl \in PreviousControls, output \in NeuralOutputs :
           LET decision == computeControl(state, reference, previousControl,
                               isInitialized, modelWellFormed, output)
           IN  /\ request' = [Request("NEURAL", state, reference, previousControl,
                                      DefaultParameters)
                                 EXCEPT !.control = output]
               /\ result' = decision
               /\ performanceHistory' =
                      IF decision.algorithm = "NEURAL_MPC"
                      THEN recordPerformance(performanceHistory, decision.control,
                                             state, reference)
                      ELSE performanceHistory
    /\ pc' = "done"
    /\ UNCHANGED <<loopVars, isInitialized, modelWellFormed, storage,
                   modelTrained, modelFresh, trainingData, training,
                   comparatorVars, transportVars>>

\* The performance reports (data.performance of an mpc-comparison message)
\* updatePerformance is fed: a tracking error of 10 computed in 5 ms.
PerformanceData ==
    {[trackingError |-> Num(10 * SCALE), computationTime |-> Num(5 * SCALE)]}

\* Reports of another shape: the figures under other names.
OtherPerformanceData == {[error |-> Num(10 * SCALE), time |-> Num(5 * SCALE)]}

\* NeuralMPC.updatePerformance, called by MQTTClient.handleMPCComparison with
\* the report of a message.  limit bounds the number of reports, reports is
\* the set they are drawn from.
CallUpdatePerformance(limit, reports) ==
    /\ pc = "idle"
    /\ ~TimerRunActive
    /\ nextTimestamp(performanceHistory) <= limit
    /\ \E performanceData \in reports :
           performanceHistory' = updatePerformance(performanceHistory,
                                                   performanceData)
    /\ UNCHANGED <<request, result, pc, loopVars, isInitialized, modelWellFormed,
                   storage, modelTrained, modelFresh, trainingData, training,
                   comparatorVars, transportVars>>

\* NeuralMPC.collectTrainingData, with the train() it starts (up to that
\* run's first await) when the buffer's length is a multiple of 100.  limit
\* bounds the number of samples collected, maxRuns the runs left suspended.
CollectTrainingData(limit, maxRuns) ==
    /\ pc = "idle"
    /\ ~TimerRunActive
    /\ Len(training) < maxRuns
    /\ nextTimestamp(trainingData) <= limit
    /\ LET kept == collectTrainingData(trainingData)
       IN  /\ trainingData' = kept
           /\ training' = IF Len(kept) % AutoTrainEvery = 0
                          THEN train(training, Min(AutoTrainBatch, Len(kept)),
                                     modelWellFormed, "call")
                          ELSE training
    /\ UNCHANGED <<request, result, pc, loopVars, isInitialized, modelWellFormed,
                   performanceHistory, storage, modelTrained, modelFresh,
                   comparatorVars, transportVars>>

\* The interval callback of startPerformanceMonitoring: evaluatePerformance,
\* with the train() it starts.  A timer task starts only when no suspended run
\* is left to resume.
EvaluatePerformance ==
    /\ pc = "idle"
    /\ training = <<>>
    /\ training' = IF degradationDetected(performanceHistory)
                   THEN train(training, Min(RetrainBatch, Len(trainingData)),
                              modelWellFormed, "timer")
                   ELSE training
    /\ UNCHANGED <<request, result, pc, loopVars, isInitialized, modelWellFormed,
                   performanceHistory, storage, modelTrained, modelFresh,
                   trainingData, comparatorVars, transportVars>>

\* The batches train() is called with from outside: 0 stands for a missing or
\* empty batch.
TrainBatches == {0, 1, 2}

\* A caller calls NeuralMPC.train(batch): the call runs up to its first await
\* and hands back a promise.
CallTrain(maxRuns) ==
    /\ pc = "idle"
    /\ ~TimerRunActive
    /\ Len(training) < maxRuns
    /\ \E batch \in TrainBatches :
           /\ request' = [NoRequest EXCEPT !.op = "train", !.control = batch]
           /\ training' = train(training, batch, modelWellFormed, "call")
    /\ pc' = "done"
    /\ UNCHANGED <<result, loopVars, isInitialized, modelWellFormed,
                   performanceHistory, storage, modelTrained, modelFresh,
                   trainingData, comparatorVars, transportVars>>

\* A caller calls NeuralMPC.reset(): the buffers are emptied, the model is
\* replaced by initializeModel() and saved (setItem may fail, caught inside
\* saveModel).  The train() runs suspended at an await stay suspended; each is
\* marked as started before the reset.
CallReset ==
    /\ pc = "idle"
    /\ ~TimerRunActive
    /\ request' = [NoRequest EXCEPT !.op = "reset"]
    /\ trainingData' = <<>>
    /\ performanceHistory' = <<>>
    /\ modelWellFormed' = TRUE
    /\ modelTrained' = FALSE
    /\ modelFresh' = TRUE
    /\ \E saved \in BOOLEAN : storage' = IF saved THEN "model" ELSE storage
    /\ training' = [i \in DOMAIN training |->
                       [training[i] EXCEPT !.beforeReset = TRUE]]
    /\ pc' = "done"
    /\ UNCHANGED <<result, loopVars, isInitialized, comparatorVars, transportVars>>

\* A suspended train() run resumes after `await this.predict(input)`:
\* updateWeights on this.model, then predict for the next sample and the next
\* await.  limit bounds the passes the model follows.
TrainContinue(limit) ==
    /\ \E i \in DOMAIN training :
           /\ training[i].updates < limit
           /\ training[i].updates + 1 < passes(training[i])
           /\ training' = [training EXCEPT ![i].updates = @ + 1]
    /\ modelFresh' = FALSE
    /\ UNCHANGED <<request, result, pc, loopVars, isInitialized, modelWellFormed,
                   performanceHistory, storage, modelTrained, trainingData,
                   comparatorVars, transportVars>>

\* A suspended train() run resumes for the last pass of the last epoch:
\* updateWeights, the loops are over, this.model.trained = true and
\* saveModel(), whose setItem may fail (caught inside saveModel).
TrainComplete ==
    /\ \E i \in DOMAIN training :
           /\ training[i].updates + 1 = passes(training[i])
           /\ training' = [j \in 1..(Len(training) - 1) |->
                              IF j < i THEN training[j] ELSE training[j + 1]]
    /\ modelFresh' = FALSE
    /\ modelTrained' = TRUE
    /\ \E saved \in BOOLEAN : storage' = IF saved THEN "model" ELSE storage
    /\ UNCHANGED <<request, result, pc, loopVars, isInitialized, modelWellFormed,
                   performanceHistory, trainingData, comparatorVars, transportVars>>

\* The caller has taken the decision; the engine waits for the next tick.
NextTick ==
    /\ pc = "done"
    /\ pc' = "idle"
    /\ request' = NoRequest
    /\ result' = NoResult
    /\ report' = NoReport
    /\ UNCHANGED <<loopVars, neuralVars, comparisonData, performanceMetrics,
                   comparisonHistory, transportVars>>

\* MPCComparator.updateComparison: the data of the message replaces the data
\* held for the strategies it names, every metric is recomputed and a snapshot
\* is stored.
CallUpdateComparison ==
    /\ pc = "idle"
    /\ Len(comparisonHistory) < MaxSnapshots
    /\ \E message \in ComparisonMessages,
          draws \in [ComparedStrategies -> RandomDraws] :
           IF ~message.present
           THEN UNCHANGED <<comparisonData, performanceMetrics, comparisonHistory>>
           ELSE LET data == [s \in ComparedStrategies |->
                               IF message.data[s].present THEN message.data[s]
                               ELSE comparisonData[s]]
                    metrics == calculatePerformanceMetrics(data, draws)
                IN  /\ comparisonData' = data
                    /\ performanceMetrics' = metrics
                    /\ comparisonHistory' =
                           storeComparisonSnapshot(comparisonHistory, metrics)
    /\ UNCHANGED <<request, result, pc, loopVars, neuralVars, report, transportVars>>

\* MPCComparator.getBestPerformingStrategy.
CallGetBestPerformingStrategy ==
    /\ pc = "idle"
    /\ request' = [NoRequest EXCEPT !.op = "getBestPerformingStrategy"]
    /\ report' = [returned |-> TRUE,
                  strategy |-> getBestPerformingStrategy(performanceMetrics).strategy,
                  score |-> getBestPerformingStrategy(performanceMetrics).score]
    /\ pc' = "done"
    /\ UNCHANGED <<result, loopVars, neuralVars, comparisonData,
                   performanceMetrics, comparisonHistory, transportVars>>

NextFilter == CallApplyConstraints \/ CallApplySafetyConstraints \/ NextTick

Next ==
    \/ CallDeterministicMPC
    \/ CallHybridMPC
    \/ CallHEMPC
    \/ StochasticMPCEnter
    \/ StochasticMPCScenario
    \/ StochasticMPCReturn
    \/ CallValidateParameters
    \/ CallEvaluateMPCCost
    \/ NextTick

NextNeural == CallComputeControl \/ NextTick

\* The filter on its own.
SpecFilter == Init /\ [][NextFilter]_vars

\* The strategies of MPCAlgorithms.
Spec == Init /\ [][Next]_vars

\* The learned predictor.
SpecNeural == Init /\ [][NextNeural]_vars

\* The samples arrive within one task of the caller: the runs they start
\* stay suspended at their first await.
NextBuffer == CollectTrainingData(MaxArrivals, MaxBufferRuns)

\* The training-sample buffer, filled past its cap.
SpecBuffer == Init /\ [][NextBuffer]_vars

NextTraining ==
    \/ CollectTrainingData(MaxTrainingArrivals, MaxTrainRuns)
    \/ TrainContinue(MaxTrainSteps)
    \/ CallComputeControl
    \/ NextTick

\* Training next to the predictor's control decisions.
SpecTraining == Init /\ [][NextTraining]_vars

NextHistory ==
    \/ CallUpdatePerformance(MaxUpdates, PerformanceData)
    \/ CallComputeControl
    \/ EvaluatePerformance
    \/ CollectTrainingData(MaxHistoryArrivals, MaxTrainRuns)
    \/ TrainContinue(MaxPasses)
    \/ TrainComplete
    \/ NextTick

\* The performance history, its two writers and the evaluation timer.
SpecHistory == Init /\ [][NextHistory]_vars

NextRecords ==
    \/ CallUpdatePerformance(MaxReports, PerformanceData \cup OtherPerformanceData)
    \/ CallComputeControl
    \/ EvaluatePerformance
    \/ CollectTrainingData(MaxHistoryArrivals, MaxTrainRuns)
    \/ TrainContinue(MaxPasses)
    \/ TrainComplete
    \/ NextTick

\* The records of the performance history, reports of any shape arriving.
SpecRecords == Init /\ [][NextRecords]_vars

\* The timeout of setupMQTTConnection fires (the oldest one pending: all have
\* the same delay): the bridge is connected and startSimulatedDataStream
\* starts an interval, its handle overwriting this.simulationInterval.
BridgeConnectionTimeout ==
    /\ timers.timeouts # <<>>
    /\ timers.started < MaxIntervals
    /\ simulinkBridge' = [simulinkBridge EXCEPT
                             !.isConnected = TRUE,
                             !.simulationInterval = timers.started + 1]
    /\ timers' = [timers EXCEPT !.timeouts = Tail(@),
                                !.intervals = @ \cup {timers.started + 1},
                                !.started = @ + 1]
    /\ UNCHANGED <<request, result, pc, loopVars, neuralVars, comparatorVars,
                   mqttClient, wire>>

\* The interval callback of startHealthMonitoring: checkConnectionHealth.  Its
\* period (5 s) is longer than the delay of the connection timeout (2 s): the
\* timeout the constructor or an earlier check set up has fired by the time
\* of a check; one a reconnect() call set up may be pending.
CheckConnectionHealth ==
    /\ \A i \in DOMAIN timers.timeouts : timers.timeouts[i] = "call"
    /\ Len(timers.timeouts) < MaxTimeouts
    /\ ~simulinkBridge.isConnected
    /\ simulinkBridge.reconnectAttempts < maxReconnectAttempts
    /\ simulinkBridge' = [simulinkBridge EXCEPT !.reconnectAttempts = @ + 1]
    /\ timers' = setupMQTTConnection(timers, "health")
    /\ UNCHANGED <<request, result, pc, loopVars, neuralVars, comparatorVars,
                   mqttClient, wire>>

\* A caller calls SimulinkBridge.disconnect().
CallDisconnect ==
    /\ simulinkBridge' = disconnect(simulinkBridge, timers).bridge
    /\ timers' = disconnect(simulinkBridge, timers).timers
    /\ UNCHANGED <<request, result, pc, loopVars, neuralVars, comparatorVars,
                   mqttClient, wire>>

\* A caller calls SimulinkBridge.reconnect().
CallReconnect ==
    /\ Len(timers.timeouts) < MaxTimeouts
    /\ LET reset == [simulinkBridge EXCEPT !.reconnectAttempts = 0]
       IN  /\ simulinkBridge' = disconnect(reset, timers).bridge
           /\ timers' = setupMQTTConnection(disconnect(reset, timers).timers, "call")
    /\ UNCHANGED <<request, result, pc, loopVars, neuralVars, comparatorVars,
                   mqttClient, wire>>

\* A caller calls SimulinkBridge.sendToSimulink(command); the commands are
\* numbered in the order they are given.
CallSendToSimulink ==
    /\ wire.given < MaxCommands
    /\ LET command == wire.given + 1
       IN  IF ~simulinkBridge.isConnected
           THEN /\ simulinkBridge' = [simulinkBridge EXCEPT
                                         !.controlQueue = Append(@, command)]
                /\ wire' = [wire EXCEPT !.given = command]
           ELSE /\ wire' = [given |-> command,
                            emitted |-> sendToSimulink(wire.emitted, mqttClient,
                                                       command)]
                /\ UNCHANGED simulinkBridge
    /\ UNCHANGED <<request, result, pc, loopVars, neuralVars, comparatorVars,
                   mqttClient, timers>>

\* SimulinkBridge.handleSimulinkData, on a 'matlab-update' event or from the
\* callback of a simulated-data interval: processControlQueue.
HandleSimulinkData ==
    /\ simulinkBridge.controlQueue # <<>>
    /\ simulinkBridge.isConnected
    /\ wire' = [wire EXCEPT !.emitted = drainQueue(simulinkBridge.controlQueue,
                                                   @, mqttClient)]
    /\ simulinkBridge' = [simulinkBridge EXCEPT !.controlQueue = <<>>]
    /\ UNCHANGED <<request, result, pc, loopVars, neuralVars, comparatorVars,
                   mqttClient, timers>>

\* The 'connect' event of a socket (a first connection, or the socket finding
\* the server again).
SocketConnect ==
    /\ \E i \in DOMAIN mqttClient.sockets :
           /\ mqttClient.sockets[i] # "connected"
           /\ mqttClient' = [mqttClient EXCEPT !.sockets[i] = "connected",
                                               !.isConnected = TRUE,
                                               !.reconnectAttempts = 0,
                                               !.scheduled = 0]
    /\ UNCHANGED <<request, result, pc, loopVars, neuralVars, comparatorVars,
                   simulinkBridge, timers, wire>>

\* The 'disconnect' event of a socket: handleReconnection.
SocketDisconnect ==
    /\ \E i \in DOMAIN mqttClient.sockets :
           /\ mqttClient.sockets[i] = "connected"
           /\ timers.connects < MaxConnects
           /\ LET closed == [mqttClient EXCEPT !.sockets[i] = "closed",
                                               !.isConnected = FALSE]
              IN  /\ mqttClient' = handleReconnection(closed, timers).client
                  /\ timers' = handleReconnection(closed, timers).timers
    /\ UNCHANGED <<request, result, pc, loopVars, neuralVars, comparatorVars,
                   simulinkBridge, wire>>

\* The timeout of handleReconnection fires: connect().  io() either hands
\* back a new socket, on which the handlers are registered, or raises, and the
\* catch block calls handleReconnection.
ConnectTimeout ==
    /\ timers.connects > 0
    /\ LET fired == [timers EXCEPT !.connects = @ - 1]
       IN  \/ /\ Len(mqttClient.sockets) < MaxSockets
              /\ mqttClient' = [mqttClient EXCEPT !.sockets = Append(@, "opening")]
              /\ timers' = fired
           \/ /\ mqttClient' = handleReconnection(mqttClient, fired).client
              /\ timers' = handleReconnection(mqttClient, fired).timers
    /\ UNCHANGED <<request, result, pc, loopVars, neuralVars, comparatorVars,
                   simulinkBridge, wire>>

NextMQTT == SocketConnect \/ SocketDisconnect \/ ConnectTimeout

\* MQTTClient: its sockets and its reconnection.
SpecMQTT == Init /\ [][NextMQTT]_vars

NextBridge ==
    \/ BridgeConnectionTimeout
    \/ CheckConnectionHealth
    \/ CallDisconnect
    \/ CallReconnect

\* SimulinkBridge: its connection and its timers.
SpecBridge == Init /\ [][NextBridge]_vars

NextQueue ==
    \/ CallSendToSimulink
    \/ HandleSimulinkData
    \/ BridgeConnectionTimeout
    \/ CallDisconnect
    \/ SocketConnect
    \/ SocketDisconnect

\* The commands of SimulinkBridge on their way through MQTTClient.
SpecQueue == Init /\ [][NextQueue]_vars

NextTrain ==
    \/ CallTrain(MaxFollowedRuns)
    \/ CallReset
    \/ TrainContinue(MaxPasses)
    \/ TrainComplete
    \/ NextTick

\* train() runs followed from their call to their end, and reset().
SpecTrain == Init /\ [][NextTrain]_vars

\* MPCComparator.resetComparison.
ResetComparison ==
    /\ pc = "idle"
    /\ comparisonData' = [s \in ComparedStrategies |-> NullData]
    /\ performanceMetrics' = [s \in ComparedStrategies |-> NoMetrics]
    /\ comparisonHistory' = <<>>
    /\ UNCHANGED <<request, result, pc, loopVars, neuralVars, report, transportVars>>

NextComparator ==
    \/ CallUpdateComparison
    \/ ResetComparison
    \/ CallGetBestPerformingStrategy
    \/ NextTick

\* The strategy comparison.
SpecComparator == Init /\ [][NextComparator]_vars

(***************************************************************************)
(* Properties                                                              *)
(***************************************************************************)
Strategies == {"HEMPC", "DETERMINISTIC", "STOCHASTIC", "HYBRID", "NEURAL"}

Filters == {"applyConstraints", "applySafetyConstraints"}

\* A strategy has handed a decision (or an exception) back to its caller.
Returned == pc = "done" /\ request.op \in Strategies

\* A filter call has returned.
Filtered == pc = "done" /\ request.op \in Filters

InRange(x) == IsNum(x) /\ x.v >= 100 * SCALE /\ x.v <= 200 * SCALE

\* x <= n as JavaScript evaluates it: false unless x is a number.
AtMost(x, n) == IsNum(x) /\ x.v <= n

\* The caps of the filter, read off the state s, on a returned value x.
WithinCaps(x, s) ==
    /\ Gt(s.temperature, 75 * SCALE) => AtMost(x, 150 * SCALE)
    /\ Gt(s.temperature, 78 * SCALE) => AtMost(x, 120 * SCALE)
    /\ Gt(s.voltage, 42 * SCALE) => AtMost(x, 160 * SCALE)
    /\ Lt(s.purity, 993 * (SCALE \div 10)) => AtMost(x, 140 * SCALE)

\* The number a returned control stands for: a promise counts as the number it
\* resolves to.
Resolved(x) == IF x.t = "promise" THEN Num(x.v) ELSE x

\* C1: for every proposed control and every process state, applyConstraints
\* and applySafetyConstraints return a value within [100, 200].
C1_FilterWithinBounds == Filtered => InRange(result.control)

\* C1 witness: both filters have clamped, one a control below 100 and one a
\* control above 200 (the latter in a state with no cap).
C1_Witness ==
    /\ Filtered
    /\ \/ request.op = "applyConstraints" /\ request.control < 100 * SCALE
          /\ result.control.v = 100 * SCALE
       \/ request.op = "applySafetyConstraints" /\ request.control > 200 * SCALE
          /\ result.control.v = 200 * SCALE

\* C2: every control a strategy returns to its caller has passed the
\* constraint filter evaluated on the caller's state: it is a number within
\* [100, 200] and within every cap the caller's state calls for (a control
\* returned as a promise is judged by the number it resolves to).
C2_StrategyOutputFiltered ==
    (Returned /\ result.kind = "decision")
        => /\ InRange(Resolved(result.control))
           /\ WithinCaps(Resolved(result.control), request.state)

\* C3: whenever a strategy raises internally (a nested DeterministicMPC call
\* included), no exception reaches the caller and the decision returned is a
\* fallback decision: control within [100, 200], strategy identifier FALLBACK.
C3_RaiseYieldsFallback ==
    (Returned /\ result.raisedInside)
        => /\ result.kind = "decision"
           /\ result.algorithm = "FALLBACK"
           /\ InRange(Resolved(result.control))

\* C4: the filter's caps each only tighten: the result is at most 150 if
\* temperature > 75, at most 120 if temperature > 78, at most 160 if
\* voltage > 42, at most 140 if purity < 99.3; when no condition holds the
\* result is the input clamped to [100, 200]; the result never exceeds
\* max(input, 100).
C4_FilterCaps ==
    Filtered =>
        /\ WithinCaps(result.control, request.state)
        /\ (/\ ~Gt(request.state.temperature, 75 * SCALE)
            /\ ~Gt(request.state.voltage, 42 * SCALE)
            /\ ~Lt(request.state.purity, 993 * (SCALE \div 10)))
               => result.control.v = Max(100 * SCALE, Min(200 * SCALE, request.control))
        /\ result.control.v <= Max(request.control, 100 * SCALE)

\* C4 witness: with temperature > 78, voltage > 42 and purity < 99.3 at once,
\* a proposed control above every cap came back as 120, the tightest of them.
C4_Witness ==
    /\ Filtered
    /\ Gt(request.state.temperature, 78 * SCALE)
    /\ Gt(request.state.voltage, 42 * SCALE)
    /\ Lt(request.state.purity, 993 * (SCALE \div 10))
    /\ request.control > 160 * SCALE
    /\ result.control.v = 120 * SCALE

\* The numeric fields a ProcessState must carry.
RequiredFields == {"production", "temperature", "voltage", "current", "purity"}

\* Parameters the data model accepts: horizon in [1, 50], qWeight, rWeight > 0
\* (a field left out takes the strategy's default, which is acceptable).
AcceptableParameters(p) ==
    /\ IsNum(p.horizon) => (p.horizon.v >= 1 /\ p.horizon.v <= 50)
    /\ IsNum(p.qWeight) => p.qWeight.v > 0
    /\ IsNum(p.rWeight) => p.rWeight.v > 0

\* C5: for every horizon in [1, 50] and q, r > 0, DeterministicMPC returns the
\* cost and control of the grid point that minimises evaluateMPCCost over the
\* 20-step grid of [100, 200]: every grid point was evaluated, the returned
\* cost is at most the cost of each, and the lowest current of minimal cost is
\* the one selected (then filtered).
C5_GridOptimal ==
    (Returned /\ request.op = "DETERMINISTIC"
              /\ AcceptableParameters(request.parameters)
              /\ \A f \in RequiredFields : IsNum(request.state[f]))
        => LET horizon == Default(request.parameters.horizon, Num(10))
               qWeight == Default(request.parameters.qWeight, Num(10))
               rWeight == Default(request.parameters.rWeight, Num(1))
               eval(u) == evaluateMPCCost(request.state, u, request.reference,
                                          horizon, qWeight, rWeight)
               cost(u) == costLoop(0, horizon.v,
                                   OrElse(request.state.production, 0), u,
                                   request.reference, qWeight.v, rWeight.v)
           IN  /\ result.algorithm = "DETERMINISTIC"
               /\ IsNum(result.cost)
               /\ \A u \in gridPoints : ~eval(u).threw /\ result.cost.v <= cost(u)
               /\ \E u \in gridPoints :
                      /\ result.cost.v = cost(u)
                      /\ \A w \in gridPoints : cost(w) = cost(u) => u <= w
                      /\ result.control = Num(applyConstraints(u, request.state))

\* The control DeterministicMPC returns for the arguments of the request.
DeterministicControl ==
    DeterministicMPC(request.state, request.reference, request.previousControl,
                     request.parameters).control

\* StochasticMPC has returned from a call made with uncertaintyLevel = 0.
StochasticAtZero ==
    /\ Returned
    /\ request.op = "STOCHASTIC"
    /\ request.parameters.uncertaintyLevel = Num(0)

\* No condition of applyRobustnessMargin holds in the state s.
NoMargin(s) ==
    /\ ~Gt(s.temperature, 75 * SCALE)
    /\ ~Lt(s.purity, 993 * (SCALE \div 10))
    /\ ~Gt(s.voltage, 42 * SCALE)

\* C6 as stated: StochasticMPC with uncertaintyLevel = 0 returns the control
\* DeterministicMPC returns for the same arguments, for every state.
C6_StochasticDegenerates == StochasticAtZero => result.control = DeterministicControl

\* C6 as amended: StochasticMPC with uncertaintyLevel = 0 returns the control
\* DeterministicMPC returns for the same arguments, for every state in which
\* no robustness margin applies (temperature not above 75, purity not below
\* 99.3, voltage not above 42), states whose production or temperature is 0 or
\* missing included.
C6_StochasticDegeneratesNoMargin ==
    (StochasticAtZero /\ NoMargin(request.state))
        => result.control = DeterministicControl

\* C6 witness: a call with uncertaintyLevel = 0 on a state with production and
\* temperature missing returned DeterministicMPC's control, one that neither
\* clamp has touched.
C6_Witness ==
    /\ StochasticAtZero
    /\ NoMargin(request.state)
    /\ request.state.production = Undef
    /\ request.state.temperature = Undef
    /\ result.control = DeterministicControl
    /\ result.control.v > 100 * SCALE
    /\ result.control.v < 200 * SCALE

\* C7: with reference = 100 and an emergency context, the economic setpoint
\* of the HEMPC upper layer is exactly 100, at every hour and in every state.
C7_EmergencySetpoint ==
    (Returned /\ request.op = "HEMPC" /\ request.reference = 100 * SCALE
              /\ request.isEmergency)
        => result.economicSetpoint = Num(100 * SCALE)

\* C8: when prediction raises inside computeControl, the caller gets no
\* exception but the decision of DeterministicMPC for the same state, the
\* caller's reference and the same previousControl.
C8_NeuralFallsBack ==
    (Returned /\ request.op = "NEURAL" /\ isInitialized /\ ~modelWellFormed)
        => LET fallback == DeterministicMPC(request.state, request.reference,
                               request.previousControl, DefaultParameters)
           IN  /\ result.kind = "decision"
               /\ result.algorithm = fallback.algorithm
               /\ result.control = fallback.control
               /\ result.cost = fallback.cost

\* C8 witness: prediction raised on a model without weights, in a state with
\* temperature > 78, and the decision handed back is DeterministicMPC's, its
\* control capped at 120 by the caller's temperature.
C8_Witness ==
    /\ Returned
    /\ request.op = "NEURAL"
    /\ ~modelWellFormed
    /\ result.raisedInside
    /\ Gt(request.state.temperature, 78 * SCALE)
    /\ result.kind = "decision"
    /\ result.control = Num(120 * SCALE)

\* C9: parameters are validated before use: for parameters with horizon
\* outside [1, 50] (0 included) or qWeight or rWeight not positive (0
\* included), validateParameters reports an error and no strategy computes a
\* decision.
C9_ParametersValidated ==
    (pc = "done" /\ ~AcceptableParameters(request.parameters))
        => /\ request.op = "validateParameters" => result.errors # <<>>
           /\ request.op \in Strategies => result.kind # "decision"

\* C10: a request whose state lacks a required numeric field is rejected with
\* an error; no strategy substitutes a default and returns a decision.
C10_MalformedStateRejected ==
    (Returned /\ \E f \in RequiredFields : request.state[f] = Undef)
        => result.kind = "thrown"

\* HEMPC has handed its decision back.
HEMPCReturned == Returned /\ request.op = "HEMPC"

\* C16: for every state, control, reference, horizon, q and r,
\* evaluateMPCCost returns without raising, and what it returns is the sum
\* over the horizon of q*(predicted state - reference)^2 at every step, plus
\* r*control^2 at every step after the first, plus the terminal penalty
\* 100*(final error)^2, the state rolled forward as A*state + B*control (the
\* value as a numerator over ModelDenominator^(2*horizon)).
C16_CostFormula ==
    (pc = "done" /\ request.op = "evaluateMPCCost")
        => /\ result.kind = "value"
           /\ LET horizon == request.parameters.horizon.v
                   state0 == OrElse(request.state.production, 0)
                   finalError == predictedState(horizon, state0, request.control)
                                 - request.reference * PowDen(horizon)
               IN  result.cost.v
                     = costLoop(0, horizon, state0, request.control,
                                request.reference, request.parameters.qWeight.v,
                                request.parameters.rWeight.v)
                       + 100 * finalError * finalError

\* C17: the decision HEMPC returns carries as its control the numeric control
\* the lower layer computed for the economic setpoint of the upper layer, not
\* a pending result.
C17_HEMPCControlNumeric ==
    (HEMPCReturned /\ result.algorithm = "HEMPC")
        => /\ IsNum(result.economicSetpoint)
           /\ IsNum(result.control)
           /\ result.control
                = DeterministicMPC(request.state, result.economicSetpoint.v,
                                   request.previousControl,
                                   lowerLayerParameters(request.parameters)).control

\* C18: for every caller horizon in [1, 50] (the default of 10 when none is
\* supplied), the lower layer of HEMPC runs DeterministicMPC with half that
\* horizon (at least 1) and with twice the caller's qWeight, twice the default
\* of 10 when the caller supplies none.
C18_LowerLayerParameters ==
    LET horizon == Default(request.parameters.horizon, Num(10)).v
        qWeight == Default(request.parameters.qWeight, Num(10)).v
        lower == lowerLayerParameters(request.parameters)
    IN  (HEMPCReturned /\ horizon >= 1 /\ horizon <= 50)
            => /\ lower.horizon = Num(Max(1, horizon \div 2))
               /\ lower.qWeight = Num(2 * qWeight)

\* The adjustment of the upper layer in hundredths: +10 in the low-cost window
\* (hours 0 to 5), -10 in the peak window (hours 18 to 23), less 5 when
\* temperature > 75, less 10 when purity < 99.3.
AdjustmentPercent(s, hour) ==
    (IF hour \in 0..5 THEN 10 ELSE IF hour \in 18..23 THEN 0 - 10 ELSE 0)
    - (IF Gt(s.temperature, 75 * SCALE) THEN 5 ELSE 0)
    - (IF Lt(s.purity, 993 * (SCALE \div 10)) THEN 10 ELSE 0)

\* C19: the economic setpoint HEMPC reports equals reference*(1+adjustment)
\* clamped to [0, 100], hence lies in [0, 100], for every reference, hour and
\* state.
C19_EconomicSetpoint ==
    (HEMPCReturned /\ result.algorithm = "HEMPC")
        => LET raw == (request.reference
                       * (100 + AdjustmentPercent(request.state, request.timeOfDay)))
                      \div 100
           IN  /\ result.economicSetpoint
                    = Num(IF raw < 0 THEN 0
                          ELSE IF raw > 100 * SCALE THEN 100 * SCALE ELSE raw)
               /\ result.economicSetpoint.v >= 0
               /\ result.economicSetpoint.v <= 100 * SCALE

\* C19 witness: HEMPC returned for reference 100 in the low-cost window with no
\* state penalty, where reference*(1+0.10) = 110 was clamped to 100.
C19_Witness ==
    /\ HEMPCReturned
    /\ request.reference = 100 * SCALE
    /\ AdjustmentPercent(request.state, request.timeOfDay) = 10
    /\ result.economicSetpoint = Num(100 * SCALE)

\* C20: HybridMPC returns a HYBRID decision whose control is one of the
\* evaluated grid values (point-20 to point+20 in steps of 5 within
\* [100, 200], for every discrete operating point), whose cost is minimal over
\* all of them, the first such in ascending point then ascending offset
\* order, and whose discreteOption is the point that produced it.
C20_HybridGlobalMinimum ==
    (Returned /\ request.op = "HYBRID")
        => LET horizon == Default(request.parameters.horizon, Num(10))
               qWeight == Default(request.parameters.qWeight, Num(10))
               rWeight == Default(request.parameters.rWeight, Num(1))
               discreteOptions == IF request.parameters.discreteOptions.defined
                                  THEN request.parameters.discreteOptions.items
                                  ELSE DefaultDiscreteOptions
               points == UNION {{<<i, u>> : u \in hybridRange(discreteOptions[i])} :
                                   i \in DOMAIN discreteOptions}
               cost(p) == costLoop(0, horizon.v,
                                   OrElse(request.state.production, 0), p[2],
                                   request.reference, qWeight.v, rWeight.v)
               before(p, q) == p[1] < q[1] \/ (p[1] = q[1] /\ p[2] <= q[2])
           IN  /\ result.algorithm = "HYBRID"
               /\ IsNum(result.cost)
               /\ \E p \in points :
                      /\ result.control = Num(p[2])
                      /\ result.discreteOption = Num(discreteOptions[p[1]])
                      /\ result.cost.v = cost(p)
                      /\ \A q \in points :
                             cost(p) < cost(q)
                             \/ (cost(p) = cost(q) /\ before(p, q))

\* C11: training and prediction are mutually exclusive: no computeControl
\* prediction reads the model's weights while a train() run is between its
\* start and its end, and no second train() run is under way at the same time.
C11_TrainingExclusive ==
    [][/\ (pc = "idle" /\ pc' = "done" /\ request'.op = "NEURAL" /\ isInitialized)
           => training = <<>>
       /\ Len(training') <= 1]_vars

\* C12: after loadModel, whatever the persisted record held, the predictor is
\* marked initialized and holds a model with every weight matrix and bias
\* vector present.
C12_LoadedModelWellFormed == isInitialized /\ modelWellFormed

\* C13: the training-sample buffer holds its samples in arrival order, never
\* more than 2,000 of them, and loses none while no more than 1,500 have been
\* collected (its capacity being between 1,500 and 2,000, oldest evicted
\* first).
C13_SampleBufferCapacity ==
    LET collected == nextTimestamp(trainingData) - 1
    IN  /\ Len(trainingData) <= 2000
        /\ \A i \in 1..(Len(trainingData) - 1) :
               trainingData[i + 1].timestamp = trainingData[i].timestamp + 1
        /\ collected <= 1500 => Len(trainingData) = collected

\* C14: the performance history never holds more than 1,000 records, and a
\* step changes it only by appending a record or, when the append takes it
\* beyond 1,000, by appending and evicting the oldest.
C14_HistoryEviction ==
    [][LET old == performanceHistory
           new == performanceHistory'
       IN  \/ new = old
           \/ /\ Len(new) = Len(old) + 1
              /\ Len(new) <= 1000
              /\ SubSeq(new, 1, Len(old)) = old
           \/ /\ Len(old) = 1000
              /\ Len(new) = 1000
              /\ SubSeq(new, 1, Len(old) - 1) = Tail(old)]_vars

\* The strategies that have comparison data.
WithData == {s \in ComparedStrategies : comparisonData[s].present}

\* The place of a strategy in the order hempc, deterministic, stochastic,
\* hybrid.
Place(s) == CHOOSE i \in DOMAIN StrategyOrder : StrategyOrder[i] = s

\* C15: getBestPerformingStrategy returns a strategy that has comparison data
\* and whose overall score no other such strategy exceeds, the earliest in the
\* order hempc, deterministic, stochastic, hybrid among those that share that
\* score, whatever the order in which the data arrived.
C15_BestStrategy ==
    (report.returned /\ WithData # {})
        => /\ report.strategy \in WithData
           /\ \A s \in WithData :
                  LET score == calculateOverallScore(performanceMetrics[s])
                  IN  /\ score <= report.score
                      /\ score = report.score => Place(report.strategy) <= Place(s)

\* C21: when DeterministicMPC fails, the control of the fallback decision is
\* previousControl + 0.5*(reference - production) passed through the
\* constraint filter, the reference being the one its caller supplied.
C21_FallbackReference ==
    (Returned /\ request.op = "DETERMINISTIC" /\ result.algorithm = "FALLBACK")
        => LET error == request.reference - OrElse(request.state.production, 0)
               control == request.previousControl + (5 * error) \div 10
           IN  result.control = Num(applyConstraints(control, request.state))

\* C22: an evaluation tick starts a retraining run if and only if the average
\* tracking error of the 10 most recent performance records exceeds 5.0; the
\* run is given the most recent 200 to 300 training samples, and a tick
\* starts at most one run.
C22_RetrainOnDegradation ==
    [][EvaluatePerformance
          => IF degradationDetected(performanceHistory)
             THEN /\ Len(training') = Len(training) + 1
                  /\ training'[Len(training')].batch >= AutoTrainBatch
                  /\ training'[Len(training')].batch <= RetrainBatch
             ELSE training' = training]_vars

\* A caller's call of the operation op is the step taken.
Called(op) == pc = "idle" /\ pc' = "done" /\ request'.op = op

\* The suspended run i is the one the step resumes for its last pass.
Completes(i) ==
    /\ training[i].updates + 1 = passes(training[i])
    /\ training' = [j \in 1..(Len(training) - 1) |->
                       IF j < i THEN training[j] ELSE training[j + 1]]

\* The suspended run i is the one the step resumes.
Resumes(i) ==
    \/ Completes(i)
    \/ training' = [training EXCEPT ![i].updates = @ + 1]

\* C23: a train() call on a non-empty batch starts a run over the batch, and
\* the model is marked trained and persisted by a run only once that run has
\* made the fixed number of epochs over its batch; a train() call with an
\* empty or missing batch leaves the model, its trained flag and the persisted
\* record as they were (no call of train raises to its caller: the outcome of
\* setItem is not seen outside saveModel).
C23_TrainEpochsThenPersist ==
    [][/\ (Called("train") /\ request'.control > 0)
           => /\ Len(training') = Len(training) + 1
              /\ training'[Len(training')].batch = request'.control
              /\ training'[Len(training')].updates = 0
       /\ (Called("train") /\ request'.control = 0)
           => UNCHANGED <<training, modelTrained, modelFresh, modelWellFormed,
                          storage>>
       /\ (~Called("reset") /\ (modelTrained' # modelTrained \/ storage' # storage))
           => /\ modelTrained'
              /\ \E i \in DOMAIN training : Completes(i)]_vars

\* C25: collectTrainingData starts a training run exactly once per 100
\* collected samples, also once the buffer is at its capacity: while the runs
\* stay suspended, there are as many of them as hundreds of samples collected
\* (on a model that has its weights).
C25_AutoTrainOncePerHundred ==
    modelWellFormed
        => Len(training) = (nextTimestamp(trainingData) - 1) \div AutoTrainEvery

\* C26: a train() run that was under way when reset() was called neither
\* touches the weights of the new model nor marks it trained: after a reset
\* the model is marked trained only by a run started after the reset.
C26_ResetDiscardsTraining ==
    [][\A i \in DOMAIN training :
          (training[i].beforeReset /\ Resumes(i))
              => UNCHANGED <<modelFresh, modelTrained>>]_vars

\* C24: the overall score of every strategy that has metrics lies within
\* [0, 100], whatever the metric values (efficiency or robustness above 100 or
\* below 0 included).
C24_OverallScoreRange ==
    \A s \in ComparedStrategies :
        performanceMetrics[s].present
            => /\ calculateOverallScore(performanceMetrics[s]) >= 0
               /\ calculateOverallScore(performanceMetrics[s]) <= 100

\* C27: every record of performanceHistory carries a numeric trackingError
\* and a numeric computationTime, whatever the interleaving of
\* recordPerformance and updatePerformance (so the averages evaluatePerformance
\* takes are numbers).
C27_RecordsNumeric ==
    \A i \in DOMAIN performanceHistory :
        /\ IsNum(performanceHistory[i].trackingError)
        /\ IsNum(performanceHistory[i].computationTime)

\* The commands of a sequence.
Range(seq) == {seq[i] : i \in DOMAIN seq}

\* C28: no command given to sendToSimulink is lost: each has been emitted by
\* the socket or is still in controlQueue, and the commands are emitted in the
\* order they were given.
C28_NoCommandLost ==
    /\ \A command \in 1..wire.given :
           \/ command \in Range(wire.emitted)
           \/ command \in Range(simulinkBridge.controlQueue)
    /\ \A i \in 1..(Len(wire.emitted) - 1) : wire.emitted[i] < wire.emitted[i + 1]

\* A socket's 'connect' event is the step taken.
Connected ==
    \E i \in DOMAIN mqttClient.sockets :
        mqttClient.sockets[i] # "connected" /\ mqttClient'.sockets[i] = "connected"

\* C29: reconnectAttempts never exceeds maxReconnectAttempts and is 0 after
\* every 'connect' event; a disconnect or a connect() that raised schedules at
\* most one connect(), and none once 5 have been scheduled since the last
\* 'connect' event.
C29_ReconnectLimited ==
    [][/\ mqttClient'.reconnectAttempts <= maxReconnectAttempts
       /\ mqttClient'.scheduled <= maxReconnectAttempts
       /\ Connected => mqttClient'.reconnectAttempts = 0
       /\ timers'.connects <= timers.connects + 1
       /\ mqttClient.scheduled = maxReconnectAttempts
              => timers'.connects <= timers.connects]_vars

\* C29 witness: five connect() calls have been scheduled since the last
\* 'connect' event, the last of them has raised, and none is pending.
C29_Witness ==
    /\ mqttClient.reconnectAttempts = maxReconnectAttempts
    /\ mqttClient.scheduled = maxReconnectAttempts
    /\ ~mqttClient.isConnected
    /\ timers.connects = 0

\* C30: at most one simulated-data interval and at most one connection
\* timeout exist at a time; a disconnected bridge has no simulated-data
\* interval left, and it becomes connected only through the timeout its
\* construction or a reconnect() call set up.
C30_BridgeTimers ==
    [][/\ Cardinality(timers'.intervals) <= 1
       /\ Len(timers'.timeouts) <= 1
       /\ ~simulinkBridge'.isConnected => timers'.intervals = {}
       /\ (~simulinkBridge.isConnected /\ simulinkBridge'.isConnected)
              => Head(timers.timeouts) \in {"init", "call"}]_vars

====
